---- MODULE Spec2Model ----
(***************************************************************************)
(* The invoice subsystem of lightningd (lightningd/invoice.c): the list of *)
(* invoices, the list of commands waiting for a payment, the JSON-RPC      *)
(* handlers invoice, listinvoice, delinvoice, waitanyinvoice, waitinvoice  *)
(* and resolve_invoice, which the HTLC engine calls on settlement.         *)
(*                                                                         *)
(* lightningd runs one event loop: each handler runs to completion, so     *)
(* each handler is one action.  The wallet (wallet_invoice_save,           *)
(* wallet_invoice_remove, the load at startup) is not part of invoice.c;   *)
(* it is modelled as the persistence gateway, a set of saved records whose *)
(* calls may fail.                                                         *)
(*                                                                         *)
(* Strings (labels, JSON tokens, hex) are sequences of one-character       *)
(* strings.  A preimage is modelled as one byte and its hash as a number   *)
(* below HashSpace, so that distinct preimages can collide.                *)
(***************************************************************************)
EXTENDS Integers, Sequences, FiniteSets, TLC

\* Number of JSON-RPC commands issued in one run.
MaxCmds == 2
\* Size of the modelled hash space.
HashSpace == 3
INVOICE_MAX_LABEL_LEN == 128

UNPAID == "UNPAID"
PAID == "PAID"

\* A NULL struct invoice pointer: list positions start at 1.
NULL == 0

----------------------------------------------------------------------------
(* Strings, numbers and hex                                                *)

HexChars == <<"0", "1", "2", "3", "4", "5", "6", "7",
              "8", "9", "a", "b", "c", "d", "e", "f">>

IsHexChar(c) == \E i \in 1..16 : HexChars[i] = c

HexVal(c) == (CHOOSE i \in 1..16 : HexChars[i] = c) - 1

\* hex_decode into the one-byte preimage buffer: the length must be exactly
\* two digits for the one byte and every character a hex digit.
hex_decode(str) ==
    IF Len(str) = 2 /\ IsHexChar(str[1]) /\ IsHexChar(str[2])
    THEN [ok |-> TRUE, r |-> 16 * HexVal(str[1]) + HexVal(str[2])]
    ELSE [ok |-> FALSE, r |-> 0]

\* json_add_hex / tal_hexstr of a one-byte value.
hexstr(v) == <<HexChars[(v \div 16) + 1], HexChars[(v % 16) + 1]>>

DecChars == <<"0", "1", "2", "3", "4", "5", "6", "7", "8", "9">>

IsDigit(c) == \E i \in 1..10 : DecChars[i] = c

DigitVal(c) == (CHOOSE i \in 1..10 : DecChars[i] = c) - 1

RECURSIVE DecVal(_)
DecVal(str) ==
    IF str = <<>> THEN 0
    ELSE 10 * DecVal(SubSeq(str, 1, Len(str) - 1)) + DigitVal(str[Len(str)])

\* json_tok_u64: the token must be a non-empty run of decimal digits.
json_tok_u64(tok) ==
    IF Len(tok) > 0 /\ \A k \in 1..Len(tok) : IsDigit(tok[k])
    THEN [ok |-> TRUE, val |-> DecVal(tok)]
    ELSE [ok |-> FALSE, val |-> 0]

\* sha256 of a preimage, as a fixed function into the hash space.
sha256(r) == (5 * r + 1) % HashSpace

\* A label one byte over the limit.
LongLabel == [k \in 1..(INVOICE_MAX_LABEL_LEN + 1) |-> "x"]

----------------------------------------------------------------------------
(* The values the callers send                                             *)

LabelToks == {<<>>, <<"a">>, <<"b">>, LongLabel}
AmountToks == {<<"0">>, <<"2", "5">>, <<"x">>}
RToks == {<<"0", "0">>, <<"0", "2">>, <<"0", "3">>, <<"0">>, <<"z", "1">>}
\* What randombytes_buf may produce.
RandomBytes == {0, 1}

\* json_get_params: every required name (no leading '?') must be present.
json_get_params(params, required) == required \subseteq DOMAIN params

InvoiceParams ==
    { [amount |-> a, label |-> l, r |-> r] :
          a \in AmountToks, l \in LabelToks, r \in RToks }
    \cup { [amount |-> a, label |-> l] : a \in AmountToks, l \in LabelToks }
    \cup { [label |-> l] : l \in {<<"a">>} }
    \cup { [amount |-> a] : a \in {<<"7">>} }

LabelParams == { [label |-> l] : l \in LabelToks }

NoParams == [n \in {} |-> <<>>]

OptLabelParams == LabelParams \cup {NoParams}

----------------------------------------------------------------------------
(* ccan/list on sequences: the head of the list is position 1              *)

\* Mutant: the new entry is linked at the tail.
list_add_last(list, n) == Append(list, n)

list_add(list, n) == <<n>> \o list

list_add_tail(list, n) == Append(list, n)

\* Mutant: the head of the list is unlinked, whatever the node.
list_del_head(list, k) == Tail(list)

list_del_from(list, k) ==
    SubSeq(list, 1, k - 1) \o SubSeq(list, k + 1, Len(list))

\* list_next: the position after k, NULL at the end of the list.
list_next(list, k) == IF k < Len(list) THEN k + 1 ELSE NULL

\* list_top: the first position, NULL when the list is empty.
list_top(list) == IF Len(list) > 0 THEN 1 ELSE NULL

----------------------------------------------------------------------------
(* State                                                                   *)

VARIABLES
    invlist,          \* struct invoices.invlist: the invoices, head first
    invoice_waiters,  \* struct invoices.invoice_waiters: waiting commands
    db,               \* the wallet: the invoice records saved so far
    toload,           \* the wallet's records not yet handed to invoice_add
    ncmds,            \* how many commands were issued so far
    answered,         \* the ids of the commands that got a reply
    replies,          \* the replies the last handler run sent, in order
    call              \* the last handler run and the calls it made, in order

vars == <<invlist, invoice_waiters, db, toload, ncmds, answered, replies,
          call>>

\* struct invoice
Invoice(id, state, r, rhash, label, msatoshi) ==
    [id |-> id, state |-> state, r |-> r, rhash |-> rhash,
     label |-> label, msatoshi |-> msatoshi]

\* The records a previous run of the daemon may have left in the wallet.
StoredInvoices ==
    { Invoice(1, PAID, 1, sha256(1), <<"b">>, 7),
      Invoice(2, UNPAID, 0, sha256(0), <<"a">>, 10) }

----------------------------------------------------------------------------
(* The wallet (persistence gateway)                                        *)

NextId(d) ==
    IF d = {} THEN 1
    ELSE (CHOOSE m \in {x.id : x \in d} : \A x \in d : x.id <= m) + 1

\* save(invoice) -> bool.  A record without an id is inserted and gets its
\* id; a record with an id replaces the saved one.  A failed save changes
\* nothing.  The result holds the wallet and the invoice afterwards.
wallet_invoice_save(d, inv, ok) ==
    IF ~ok THEN [ok |-> FALSE, db |-> d, inv |-> inv]
    ELSE IF inv.id = 0
         THEN LET saved == [inv EXCEPT !.id = NextId(d)]
              IN  [ok |-> TRUE, db |-> d \cup {saved}, inv |-> saved]
         ELSE [ok |-> TRUE,
               db |-> {x \in d : x.id # inv.id} \cup {inv},
               inv |-> inv]

\* remove(invoice) -> bool.
wallet_invoice_remove(d, inv, ok) ==
    IF ~ok THEN [ok |-> FALSE, db |-> d]
    ELSE [ok |-> TRUE, db |-> {x \in d : x.id # inv.id}]

----------------------------------------------------------------------------
(* Lookups                                                                 *)

\* The first position in the list with this hash and this state, or NULL.
find_inv(list, rhash, state) ==
    LET hits == {k \in 1..Len(list) :
                     list[k].rhash = rhash /\ list[k].state = state}
    IN  IF hits = {} THEN NULL
        ELSE CHOOSE k \in hits : \A j \in hits : k <= j

find_unpaid(list, rhash) == find_inv(list, rhash, UNPAID)

\* Mutant: the duplicate check never finds a paid invoice.
find_paid_never(list, rhash) == NULL

find_paid(list, rhash) == find_inv(list, rhash, PAID)

\* Mutant: the search starts after the head of the list.
find_invoice_by_label_after_head(list, label) ==
    LET hits == {k \in 2..Len(list) : list[k].label = label}
    IN  IF hits = {} THEN NULL
        ELSE CHOOSE k \in hits : \A j \in hits : k <= j

\* The first position in the list with this label, or NULL.
find_invoice_by_label(list, label) ==
    LET hits == {k \in 1..Len(list) : list[k].label = label}
    IN  IF hits = {} THEN NULL
        ELSE CHOOSE k \in hits : \A j \in hits : k <= j

----------------------------------------------------------------------------
(* Responses                                                               *)

command_success(rs, cmd, result) ==
    Append(rs, [cmd |-> cmd, success |-> TRUE, result |-> result])

command_fail(rs, cmd, msg) ==
    Append(rs, [cmd |-> cmd, success |-> FALSE, result |-> msg])

\* tell_waiter: the command succeeds with the invoice's label, hash, amount
\* and whether it is paid.
tell_waiter(rs, cmd, paid) ==
    command_success(rs, cmd,
        [label |-> paid.label, rhash |-> hexstr(paid.rhash),
         msatoshi |-> paid.msatoshi, complete |-> (paid.state = PAID)])

\* The struct command the dispatcher makes for a request: its number, its
\* method and the label it was sent with, if any.
NewCmd(id, method, params) ==
    [id |-> id, method |-> method,
     params |-> [n \in DOMAIN params \cap {"label"} |-> params[n]]]

Running == toload = {}

CanIssue == Running /\ ncmds < MaxCmds

----------------------------------------------------------------------------
(* Startup                                                                 *)

\* invoices_init, with the wallet holding what an earlier run saved.
Init ==
    /\ invlist = <<>>
    /\ invoice_waiters = <<>>
    /\ db \in SUBSET StoredInvoices
    /\ toload = db
    /\ ncmds = 0
    /\ answered = {}
    /\ replies = <<>>
    /\ call = [handler |-> "invoices_init", steps |-> <<>>]

\* invoice_add, called by the wallet for each record it loads.  The hash it
\* computes goes into a fresh struct invoice whose r was never written, so
\* it reads an indeterminate value; inv itself is linked in as loaded.
invoice_add(list, inv, junk) ==
    LET invoice == [rhash |-> sha256(junk)]
    IN  list_add(list, inv)

InvoiceAdd ==
    /\ toload # {}
    /\ \E inv \in toload, junk \in RandomBytes :
          /\ invlist' = invoice_add(invlist, inv, junk)
          /\ toload' = toload \ {inv}
    /\ call' = [handler |-> "invoice_add", steps |-> <<"list_add">>]
    /\ UNCHANGED <<invoice_waiters, db, ncmds, answered, replies>>

----------------------------------------------------------------------------
(* Handlers.  Each is the handler's effect on the state it is called in:   *)
(* the lists and the wallet afterwards, the replies it sent and the calls  *)
(* it made.                                                                *)

Outcome(list, waiters, d, rs, steps) ==
    [invlist |-> list, invoice_waiters |-> waiters, db |-> d,
     replies |-> rs, steps |-> steps]

\* A handler that only fails the command.
Fails(cmd, msg) ==
    Outcome(invlist, invoice_waiters, db, command_fail(<<>>, cmd, msg),
            <<"command_fail">>)

\* Mutant: "if" for "while": only the first waiter is popped and told.
TellFirstWaiter(waiters, rs, paid) ==
    IF waiters = <<>> THEN [invoice_waiters |-> waiters, replies |-> rs]
    ELSE [invoice_waiters |-> Tail(waiters),
          replies |-> tell_waiter(rs, Head(waiters), paid)]

\* Mutant: the waiters are taken from the tail of the list.
RECURSIVE TellWaitersFromTail(_, _, _)
TellWaitersFromTail(waiters, rs, paid) ==
    IF waiters = <<>> THEN [invoice_waiters |-> waiters, replies |-> rs]
    ELSE TellWaitersFromTail(SubSeq(waiters, 1, Len(waiters) - 1),
                             tell_waiter(rs, waiters[Len(waiters)], paid),
                             paid)

\* resolve_invoice's loop: while list_pop gives a waiter, tell it.  The
\* result is what is left of the waiters and the replies sent.
RECURSIVE TellWaiters(_, _, _)
TellWaiters(waiters, rs, paid) ==
    IF waiters = <<>> THEN [invoice_waiters |-> waiters, replies |-> rs]
    ELSE TellWaiters(Tail(waiters), tell_waiter(rs, Head(waiters), paid),
                     paid)

\* Mutant: the state is flipped instead of set.
SetToggled(invoice) ==
    [invoice EXCEPT !.state = IF @ = PAID THEN UNPAID ELSE PAID]

\* invoice->state = PAID
SetPaid(invoice) == [invoice EXCEPT !.state = PAID]

\* Mutant: the wallet is asked first, and a failed save ends the call.
resolve_invoice_save_first(k, saveok) ==
    LET invoice == SetPaid(invlist[k])
        saved == wallet_invoice_save(db, invoice, saveok)
        told == TellWaiters(invoice_waiters, <<>>, invoice)
    IN  IF ~saved.ok
        THEN Outcome(invlist, invoice_waiters, saved.db, <<>>,
                     <<"wallet_invoice_save">>)
        ELSE Outcome([invlist EXCEPT ![k] = invoice],
                     told.invoice_waiters,
                     saved.db,
                     told.replies,
                     <<"wallet_invoice_save", "state">>
                         \o [n \in 1..Len(told.replies) |-> "tell_waiter"])

\* Mutant: an invoice that is PAID already is left alone, waiters included.
resolve_invoice_once(k, saveok) ==
    LET invoice == SetPaid(invlist[k])
        told == TellWaiters(invoice_waiters, <<>>, invoice)
        saved == wallet_invoice_save(db, invoice, saveok)
    IN  IF invlist[k].state = PAID
        THEN Outcome(invlist, invoice_waiters, db, <<>>, <<>>)
        ELSE Outcome([invlist EXCEPT ![k] = invoice],
                     told.invoice_waiters,
                     saved.db,
                     told.replies,
                     <<"state">>
                         \o [n \in 1..Len(told.replies) |-> "tell_waiter"]
                         \o <<"wallet_invoice_save">>)

\* resolve_invoice on the invoice at position k of the list.  The result of
\* the save is not looked at.
resolve_invoice(k, saveok) ==
    LET invoice == SetPaid(invlist[k])
        told == TellWaiters(invoice_waiters, <<>>, invoice)
        saved == wallet_invoice_save(db, invoice, saveok)
    IN  Outcome([invlist EXCEPT ![k] = invoice],
                told.invoice_waiters,
                saved.db,
                told.replies,
                <<"state">>
                    \o [n \in 1..Len(told.replies) |-> "tell_waiter"]
                    \o <<"wallet_invoice_save">>)

\* Mutant: the hash is taken of a zeroed buffer, not of the invoice's r.
InvoiceHashOfZero(r) == sha256(0)

\* sha256(&invoice->rhash, invoice->r.r, sizeof(invoice->r.r))
InvoiceHash(r) == sha256(r)

\* Mutant: the invoice is linked into the list before it is saved.
ConnectInvoiceFirst(cmd, invoice, saveok) ==
    LET saved == wallet_invoice_save(db, invoice, saveok)
    IN  IF ~saved.ok
        THEN Outcome(list_add(invlist, invoice), invoice_waiters, saved.db,
                     command_fail(<<>>, cmd, "database error"),
                     <<"list_add", "wallet_invoice_save", "command_fail">>)
        ELSE Outcome(list_add(invlist, saved.inv), invoice_waiters, saved.db,
                     command_success(<<>>, cmd,
                                     [rhash |-> hexstr(invoice.rhash)]),
                     <<"list_add", "wallet_invoice_save", "command_success">>)

\* The end of json_invoice: save the invoice, then link it at the head of the
\* list and answer with its hash.
ConnectInvoice(cmd, invoice, saveok) ==
    LET saved == wallet_invoice_save(db, invoice, saveok)
    IN  IF ~saved.ok
        THEN Outcome(invlist, invoice_waiters, saved.db,
                     command_fail(<<>>, cmd, "database error"),
                     <<"wallet_invoice_save", "command_fail">>)
        ELSE Outcome(list_add(invlist, saved.inv), invoice_waiters, saved.db,
                     command_success(<<>>, cmd,
                                     [rhash |-> hexstr(invoice.rhash)]),
                     <<"wallet_invoice_save", "list_add", "command_success">>)

\* Mutant: the amount is parsed but not compared with zero.
json_invoice_any_amount(cmd, params, rnd, saveok) ==
    IF ~json_get_params(params, {"amount", "label"})
    THEN Fails(cmd, "Need {amount} and {label}")
    ELSE
    LET dec == IF "r" \in DOMAIN params THEN hex_decode(params.r)
               ELSE [ok |-> TRUE, r |-> rnd]
        rhash == InvoiceHash(dec.r)
        amount == json_tok_u64(params.amount)
        label == params.label
        invoice == Invoice(0, UNPAID, dec.r, rhash, label, amount.val)
    IN  IF ~dec.ok
        THEN Fails(cmd, "Invalid hex r")
        ELSE IF find_unpaid(invlist, rhash) # NULL
                \/ find_paid(invlist, rhash) # NULL
        THEN Fails(cmd, "Duplicate r value")
        ELSE IF ~amount.ok
        THEN Fails(cmd, "not a valid positive number")
        ELSE IF find_invoice_by_label(invlist, label) # NULL
        THEN Fails(cmd, "Duplicate label")
        ELSE IF Len(label) > INVOICE_MAX_LABEL_LEN
        THEN Fails(cmd, "label over INVOICE_MAX_LABEL_LEN bytes")
        ELSE ConnectInvoice(cmd, invoice, saveok)

json_invoice(cmd, params, rnd, saveok) ==
    IF ~json_get_params(params, {"amount", "label"})
    THEN Fails(cmd, "Need {amount} and {label}")
    ELSE
    LET dec == IF "r" \in DOMAIN params THEN hex_decode(params.r)
               ELSE [ok |-> TRUE, r |-> rnd]
        rhash == InvoiceHash(dec.r)
        amount == json_tok_u64(params.amount)
        label == params.label
        invoice == Invoice(0, UNPAID, dec.r, rhash, label, amount.val)
    IN  IF ~dec.ok
        THEN Fails(cmd, "Invalid hex r")
        ELSE IF find_unpaid(invlist, rhash) # NULL
                \/ find_paid(invlist, rhash) # NULL
        THEN Fails(cmd, "Duplicate r value")
        ELSE IF ~amount.ok \/ amount.val = 0
        THEN Fails(cmd, "not a valid positive number")
        ELSE IF find_invoice_by_label(invlist, label) # NULL
        THEN Fails(cmd, "Duplicate label")
        ELSE IF Len(label) > INVOICE_MAX_LABEL_LEN
        THEN Fails(cmd, "label over INVOICE_MAX_LABEL_LEN bytes")
        ELSE ConnectInvoice(cmd, invoice, saveok)

\* json_add_invoices: the entries of the list from position k on whose label
\* is the one asked for, or all of them when no label was given.
RECURSIVE json_add_invoices(_, _, _)
json_add_invoices(list, k, params) ==
    IF k > Len(list) THEN <<>>
    ELSE IF "label" \in DOMAIN params /\ list[k].label # params.label
    THEN json_add_invoices(list, k + 1, params)
    ELSE <<[label |-> list[k].label, rhash |-> hexstr(list[k].rhash),
            msatoshi |-> list[k].msatoshi,
            complete |-> (list[k].state = PAID)]>>
         \o json_add_invoices(list, k + 1, params)

json_listinvoice(cmd, params) ==
    IF ~json_get_params(params, {})
    THEN Fails(cmd, "Invalid arguments")
    ELSE Outcome(invlist, invoice_waiters, db,
                 command_success(<<>>, cmd,
                                 json_add_invoices(invlist, 1, params)),
                 <<"command_success">>)

\* Mutant: the invoice is unlinked from the list before the wallet is asked
\* to remove it.
json_delinvoice_unlink_first(cmd, params, removeok) ==
    IF ~json_get_params(params, {"label"})
    THEN Outcome(invlist, invoice_waiters, db,
                 command_fail(<<>>, cmd, "Invalid arguments"),
                 <<"command_fail">>)
    ELSE
    LET i == find_invoice_by_label(invlist, params.label)
        removed == wallet_invoice_remove(db, invlist[i], removeok)
    IN  IF i = NULL
        THEN Outcome(invlist, invoice_waiters, db,
                     command_fail(<<>>, cmd, "Unknown invoice"),
                     <<"command_fail">>)
        ELSE IF ~removed.ok
        THEN Outcome(list_del_from(invlist, i), invoice_waiters, removed.db,
                     command_fail(<<>>, cmd, "Database error"),
                     <<"list_del_from", "wallet_invoice_remove",
                       "command_fail">>)
        ELSE Outcome(list_del_from(invlist, i), invoice_waiters, removed.db,
                     command_success(<<>>, cmd,
                         [label |-> invlist[i].label,
                          rhash |-> hexstr(invlist[i].rhash),
                          msatoshi |-> invlist[i].msatoshi]),
                     <<"list_del_from", "wallet_invoice_remove",
                       "command_success">>)

\* Mutant: the commands waiting for the deleted label are failed and taken
\* off the waiters.
json_delinvoice_fails_waiters(cmd, params, removeok) ==
    IF ~json_get_params(params, {"label"})
    THEN Fails(cmd, "Invalid arguments")
    ELSE
    LET i == find_invoice_by_label(invlist, params.label)
        removed == wallet_invoice_remove(db, invlist[i], removeok)
        Waiting(w) == w.method = "waitinvoice" /\ w.params.label = params.label
        gone == SelectSeq(invoice_waiters, Waiting)
        kept == SelectSeq(invoice_waiters, LAMBDA w : ~Waiting(w))
    IN  IF i = NULL
        THEN Fails(cmd, "Unknown invoice")
        ELSE IF ~removed.ok
        THEN Outcome(invlist, invoice_waiters, removed.db,
                     command_fail(<<>>, cmd, "Database error"),
                     <<"wallet_invoice_remove", "command_fail">>)
        ELSE Outcome(list_del_from(invlist, i), kept, removed.db,
                     [n \in 1..Len(gone) |->
                          [cmd |-> gone[n], success |-> FALSE,
                           result |-> "Unknown invoice"]]
                     \o command_success(<<>>, cmd,
                         [label |-> invlist[i].label,
                          rhash |-> hexstr(invlist[i].rhash),
                          msatoshi |-> invlist[i].msatoshi]),
                     <<"wallet_invoice_remove", "list_del_from",
                       "command_success">>)

json_delinvoice(cmd, params, removeok) ==
    IF ~json_get_params(params, {"label"})
    THEN Fails(cmd, "Invalid arguments")
    ELSE
    LET i == find_invoice_by_label(invlist, params.label)
        removed == wallet_invoice_remove(db, invlist[i], removeok)
    IN  IF i = NULL
        THEN Fails(cmd, "Unknown invoice")
        ELSE IF ~removed.ok
        THEN Outcome(invlist, invoice_waiters, removed.db,
                     command_fail(<<>>, cmd, "Database error"),
                     <<"wallet_invoice_remove", "command_fail">>)
        ELSE Outcome(list_del_from(invlist, i), invoice_waiters, removed.db,
                     command_success(<<>>, cmd,
                         [label |-> invlist[i].label,
                          rhash |-> hexstr(invlist[i].rhash),
                          msatoshi |-> invlist[i].msatoshi]),
                     <<"wallet_invoice_remove", "list_del_from",
                       "command_success">>)

\* Mutant: the loop is missing: the position is used as found.
AdvanceNever(list, i) == i

\* "Advance until we find a PAID one": from position i towards the tail.
RECURSIVE AdvanceToPaid(_, _)
AdvanceToPaid(list, i) ==
    IF i # NULL /\ list[i].state = UNPAID
    THEN AdvanceToPaid(list, list_next(list, i))
    ELSE i

\* Mutant: list_add for list_add_tail: the command goes to the head.
WaitsAtHead(cmd) ==
    Outcome(invlist, <<cmd>> \o invoice_waiters, db, <<>>,
            <<"list_add_tail">>)

\* The command is added to the waiters and gets no reply yet.
Waits(cmd) ==
    Outcome(invlist, list_add_tail(invoice_waiters, cmd), db, <<>>,
            <<"list_add_tail">>)

json_waitanyinvoice(cmd, params) ==
    IF ~json_get_params(params, {})
    THEN Fails(cmd, "Invalid arguments")
    ELSE
    LET found == IF "label" \notin DOMAIN params THEN list_top(invlist)
                 ELSE find_invoice_by_label(invlist, params.label)
        i == AdvanceToPaid(invlist, found)
    IN  IF "label" \in DOMAIN params /\ found = NULL
        THEN Fails(cmd, "Label not found")
        ELSE IF i # NULL
        THEN Outcome(invlist, invoice_waiters, db,
                     tell_waiter(<<>>, cmd, invlist[i]),
                     <<"tell_waiter">>)
        ELSE Waits(cmd)

\* Mutant: no return after tell_waiter: a command that was answered is
\* added to the waiters as well.
json_waitinvoice_no_return(cmd, params) ==
    IF ~json_get_params(params, {"label"})
    THEN Outcome(invlist, invoice_waiters, db,
                 command_fail(<<>>, cmd, "Missing {label}"),
                 <<"command_fail">>)
    ELSE
    LET i == find_invoice_by_label(invlist, params.label)
    IN  IF i = NULL
        THEN Outcome(invlist, invoice_waiters, db,
                     command_fail(<<>>, cmd, "Label not found"),
                     <<"command_fail">>)
        ELSE IF invlist[i].state = PAID
        THEN Outcome(invlist, list_add_tail(invoice_waiters, cmd), db,
                     tell_waiter(<<>>, cmd, invlist[i]),
                     <<"tell_waiter", "list_add_tail">>)
        ELSE Outcome(invlist, list_add_tail(invoice_waiters, cmd), db, <<>>,
                     <<"list_add_tail">>)

json_waitinvoice(cmd, params) ==
    IF ~json_get_params(params, {"label"})
    THEN Fails(cmd, "Missing {label}")
    ELSE
    LET i == find_invoice_by_label(invlist, params.label)
    IN  IF i = NULL
        THEN Fails(cmd, "Label not found")
        ELSE IF invlist[i].state = PAID
        THEN Outcome(invlist, invoice_waiters, db,
                     tell_waiter(<<>>, cmd, invlist[i]),
                     <<"tell_waiter">>)
        ELSE Waits(cmd)

----------------------------------------------------------------------------
(* Actions                                                                 *)

\* The handler's outcome becomes the next state.
Becomes(handler, out) ==
    /\ invlist' = out.invlist
    /\ invoice_waiters' = out.invoice_waiters
    /\ db' = out.db
    /\ replies' = out.replies
    /\ answered' = answered \cup {out.replies[n].cmd.id :
                                     n \in 1..Len(out.replies)}
    /\ call' = [handler |-> handler, steps |-> out.steps]
    /\ UNCHANGED toload

\* A request arrives: the dispatcher makes the next struct command.
Issued == ncmds' = ncmds + 1

ThisCmd(method, params) == NewCmd(ncmds + 1, method, params)

JsonInvoice ==
    /\ CanIssue
    /\ \E params \in InvoiceParams, saveok \in BOOLEAN :
       \E rnd \in IF "r" \in DOMAIN params THEN {0} ELSE RandomBytes :
          /\ Issued
          /\ Becomes("json_invoice",
                     json_invoice(ThisCmd("invoice", params), params, rnd,
                                  saveok))

JsonListinvoice ==
    /\ CanIssue
    /\ \E params \in OptLabelParams :
          /\ Issued
          /\ Becomes("json_listinvoice",
                     json_listinvoice(ThisCmd("listinvoice", params), params))

JsonDelinvoice ==
    /\ CanIssue
    /\ \E params \in OptLabelParams, removeok \in BOOLEAN :
          /\ Issued
          /\ Becomes("json_delinvoice",
                     json_delinvoice(ThisCmd("delinvoice", params), params,
                                     removeok))

JsonWaitanyinvoice ==
    /\ CanIssue
    /\ \E params \in OptLabelParams :
          /\ Issued
          /\ Becomes("json_waitanyinvoice",
                     json_waitanyinvoice(ThisCmd("waitanyinvoice", params),
                                         params))

JsonWaitinvoice ==
    /\ CanIssue
    /\ \E params \in OptLabelParams :
          /\ Issued
          /\ Becomes("json_waitinvoice",
                     json_waitinvoice(ThisCmd("waitinvoice", params), params))

\* The HTLC engine settles an invoice of the list.
ResolveInvoice ==
    /\ Running
    /\ \E k \in 1..Len(invlist), saveok \in BOOLEAN :
          Becomes("resolve_invoice", resolve_invoice(k, saveok))
    /\ UNCHANGED ncmds

Next ==
    \/ InvoiceAdd
    \/ JsonInvoice
    \/ JsonListinvoice
    \/ JsonDelinvoice
    \/ JsonWaitanyinvoice
    \/ JsonWaitinvoice
    \/ ResolveInvoice

Spec == Init /\ [][Next]_vars

----------------------------------------------------------------------------
(* Properties                                                              *)

Positions == 1..Len(invlist)

\* What the callers are shown of an invoice.
Projection(inv) ==
    [label |-> inv.label, rhash |-> hexstr(inv.rhash),
     msatoshi |-> inv.msatoshi, complete |-> (inv.state = PAID)]

LastFailed(handler, msg) ==
    /\ call.handler = handler
    /\ Len(replies) = 1
    /\ ~replies[1].success
    /\ replies[1].result = msg

\* C1: no two invoices of the list have the same payment hash, whatever
\* their states.
C1_UniqueHash ==
    \A i, j \in Positions : invlist[i].rhash = invlist[j].rhash => i = j

\* A paid and an unpaid invoice are in the list and a create has just been
\* refused for its hash.
C1_Witness ==
    /\ \E i, j \in Positions :
          invlist[i].state = PAID /\ invlist[j].state = UNPAID
    /\ LastFailed("json_invoice", "Duplicate r value")

\* C2: no two invoices of the list have the same label, whatever their
\* states.
C2_UniqueLabel ==
    \A i, j \in Positions : invlist[i].label = invlist[j].label => i = j

\* A paid and an unpaid invoice are in the list and a create has just been
\* refused for its label.
C2_Witness ==
    /\ \E i, j \in Positions :
          invlist[i].state = PAID /\ invlist[j].state = UNPAID
    /\ LastFailed("json_invoice", "Duplicate label")

\* C3: the payment hash of every invoice of the list is the sha256 of its
\* preimage.
C3_HashOfPreimage ==
    \A i \in Positions : invlist[i].rhash = sha256(invlist[i].r)

\* The list holds an invoice created with the preimage 03 given by the
\* caller and one created with a generated preimage, after a resolve.
C3_Witness ==
    /\ \E i, j \in Positions :
          /\ invlist[i].r = 3 /\ invlist[i].label = <<>>
          /\ invlist[j].r = 1 /\ invlist[j].state = UNPAID
    /\ call.handler = "resolve_invoice"

\* C4: an invoice enters the list unpaid when json_invoice adds it, only
\* resolve_invoice changes the state of an invoice, and a paid invoice that
\* stays in the list stays paid.
C4_StateMonotonic ==
    [][ /\ \A i \in Positions, j \in 1..Len(invlist') :
              invlist'[j].id = invlist[i].id =>
                  /\ invlist[i].state = PAID => invlist'[j].state = PAID
                  /\ invlist'[j].state # invlist[i].state =>
                         call'.handler = "resolve_invoice"
        /\ call'.handler = "json_invoice" =>
              \A j \in 1..Len(invlist') :
                  (\A i \in Positions : invlist[i].id # invlist'[j].id)
                      => invlist'[j].state = UNPAID
      ]_vars

\* An invoice created in this run is paid, was resolved again, and a create
\* came after that.
C4_Witness ==
    /\ \E i \in Positions :
          invlist[i].label = <<>> /\ invlist[i].state = PAID
    /\ call.handler = "json_invoice"
    /\ Len(replies) = 1 /\ replies[1].success

\* C5: every successful reply to a waitinvoice command is the projection of
\* the invoice with the label the command asked for, with complete = true.
C5_WaitinvoiceGetsItsInvoice ==
    \A n \in 1..Len(replies) :
        (replies[n].cmd.method = "waitinvoice" /\ replies[n].success) =>
            \E i \in Positions :
                /\ invlist[i].label = replies[n].cmd.params.label
                /\ replies[n].result = Projection(invlist[i])
                /\ replies[n].result.complete

\* Position a comes before position b wherever b occurs in the steps.
Precedes(steps, a, b) ==
    \A j \in 1..Len(steps) :
        steps[j] = b => \E i \in 1..(j - 1) : steps[i] = a

\* C6: a resolve_invoice leaves no waiter queued, and every command that was
\* queued when it started got exactly one reply in it: the projection of the
\* resolved invoice, with complete = true.
C6_ResolveTellsEveryWaiter ==
    [][ call'.handler = "resolve_invoice" =>
          /\ invoice_waiters' = <<>>
          /\ Len(replies') = Len(invoice_waiters)
          /\ \E k \in Positions :
                /\ invlist' = [invlist EXCEPT ![k].state = PAID]
                /\ \A n \in 1..Len(invoice_waiters) :
                      /\ Cardinality({m \in 1..Len(replies') :
                             replies'[m].cmd = invoice_waiters[n]}) = 1
                      /\ \A m \in 1..Len(replies') :
                             replies'[m].cmd = invoice_waiters[n] =>
                                 /\ replies'[m].success
                                 /\ replies'[m].result
                                        = Projection(invlist'[k])
                                 /\ replies'[m].result.complete
      ]_vars

\* A resolve has just told a waitinvoice and a waitanyinvoice command.
C6_Witness ==
    /\ call.handler = "resolve_invoice"
    /\ Len(replies) = 2
    /\ replies[1].cmd.method # replies[2].cmd.method
    /\ invoice_waiters = <<>>

\* C7: a command gets at most one reply, is in the waiters at most once and
\* never after its reply; the waiters are exactly the wait commands issued
\* and not yet answered.
C7_OneReplyPerCommand ==
    [][ /\ \A n \in 1..Len(replies') :
              /\ replies'[n].cmd.id \notin answered
              /\ \A m \in 1..Len(replies') :
                     replies'[m].cmd.id = replies'[n].cmd.id => m = n
        /\ \A n, m \in 1..Len(invoice_waiters') :
              invoice_waiters'[n].id = invoice_waiters'[m].id => m = n
        /\ \A n \in 1..Len(invoice_waiters') :
              invoice_waiters'[n].method \in {"waitinvoice", "waitanyinvoice"}
        /\ {invoice_waiters'[n].id : n \in 1..Len(invoice_waiters')}
               = (1..ncmds') \ answered'
      ]_vars

\* A waitinvoice command has just been answered at once while an earlier
\* command is still waiting.
C7_Witness ==
    /\ call.handler = "json_waitinvoice"
    /\ Len(replies) = 1 /\ replies[1].success
    /\ Len(invoice_waiters) = 1
    /\ invoice_waiters[1].id < replies[1].cmd.id
    /\ answered = {replies[1].cmd.id}

\* C8: a json_invoice that fails leaves the list of invoices as it was; one
\* that succeeds puts the saved invoice at the head of the list, and the
\* wallet's save is called before the invoice is linked into the list.
C8_RejectedCreateKeepsList ==
    [][ call'.handler = "json_invoice" =>
          /\ Len(replies') = 1
          /\ ~replies'[1].success => invlist' = invlist
          /\ replies'[1].success =>
                /\ Len(invlist') = Len(invlist) + 1
                /\ Tail(invlist') = invlist
                /\ invlist'[1] \in db'
                /\ \E j \in 1..Len(call'.steps) : call'.steps[j] = "list_add"
          /\ Precedes(call'.steps, "wallet_invoice_save", "list_add")
      ]_vars

\* A create has just failed in the wallet's save with invoices in the list.
C8_Witness ==
    /\ LastFailed("json_invoice", "database error")
    /\ Len(invlist) >= 1

\* C9: a json_delinvoice that succeeds removes the invoice with the label it
\* was given, and no other, from the list and from the wallet; listinvoice
\* shows only invoices of the list, and a label comes into the list only
\* through json_invoice (or the load at startup).
C9_DeleteRemovesThatInvoice ==
    [][ /\ (call'.handler = "json_delinvoice" /\ Len(replies') = 1
                /\ replies'[1].success) =>
              \E i \in Positions :
                  /\ invlist[i].label = replies'[1].cmd.params.label
                  /\ invlist' = SubSeq(invlist, 1, i - 1)
                                   \o SubSeq(invlist, i + 1, Len(invlist))
                  /\ db' = db \ {x \in db : x.id = invlist[i].id}
                  /\ \A x \in db' : x.label # invlist[i].label
                  /\ \A j \in 1..Len(invlist') :
                         invlist'[j].label # invlist[i].label
        /\ call'.handler = "json_listinvoice" =>
              /\ invlist' = invlist
              /\ Len(replies') = 1 /\ replies'[1].success
              /\ \A e \in 1..Len(replies'[1].result) :
                     \E i \in Positions :
                         replies'[1].result[e] = Projection(invlist[i])
        /\ \A j \in 1..Len(invlist') :
              (\A i \in Positions : invlist[i].label # invlist'[j].label)
                  => call'.handler \in {"json_invoice", "invoice_add"}
      ]_vars

\* A delete has just succeeded on a paid invoice; an older and a newer
\* invoice are still in the list and in the wallet.
C9_Witness ==
    /\ call.handler = "json_delinvoice"
    /\ Len(replies) = 1 /\ replies[1].success
    /\ replies[1].cmd.params.label = <<"b">>
    /\ Len(invlist) = 2
    /\ invlist[1].label = <<>> /\ invlist[2].label = <<"a">>
    /\ Cardinality(db) = 2

\* C10: a json_delinvoice that fails leaves the list, the waiters and the
\* wallet as they were; it fails with "Unknown invoice" exactly when no
\* invoice has the label, and when the wallet's remove fails the invoice is
\* still in the list; the wallet's remove is called before the invoice is
\* unlinked from the list.
C10_FailedDeleteKeepsStore ==
    [][ call'.handler = "json_delinvoice" =>
          /\ Len(replies') = 1
          /\ ~replies'[1].success =>
                /\ invlist' = invlist
                /\ invoice_waiters' = invoice_waiters
                /\ db' = db
          /\ "label" \in DOMAIN replies'[1].cmd.params =>
                /\ (~replies'[1].success
                        /\ replies'[1].result = "Unknown invoice")
                       <=> find_invoice_by_label(invlist,
                               replies'[1].cmd.params.label) = NULL
                /\ (~replies'[1].success
                        /\ replies'[1].result = "Database error")
                       => /\ \E i \in 1..Len(invlist') :
                                invlist'[i].label
                                    = replies'[1].cmd.params.label
                          /\ call'.steps
                                = <<"wallet_invoice_remove", "command_fail">>
          /\ Precedes(call'.steps, "wallet_invoice_remove", "list_del_from")
      ]_vars

\* A delete of a paid invoice has just failed in the wallet's remove.
C10_Witness ==
    /\ LastFailed("json_delinvoice", "Database error")
    /\ \E i \in Positions :
          /\ invlist[i].label = replies[1].cmd.params.label
          /\ invlist[i].state = PAID

\* The positions of the invoices with a label.
Labelled(label) == {i \in Positions : invlist[i].label = label}

\* C11: a delinvoice removes unpaid invoices only: every paid invoice of the
\* list is still in the list after a json_delinvoice.
C11_DeleteOnlyUnpaid ==
    [][ call'.handler = "json_delinvoice" =>
          \A i \in Positions :
              invlist[i].state = PAID =>
                  \E j \in 1..Len(invlist') : invlist'[j] = invlist[i]
      ]_vars

\* This step is json_waitinvoice called with these parameters.
WaitinvoiceStep(params) ==
    /\ Issued
    /\ Becomes("json_waitinvoice",
               json_waitinvoice(ThisCmd("waitinvoice", params), params))

\* C12: a waitinvoice for a label leaves the list of invoices alone and does
\* one of three things: no invoice has the label: it fails with "Label not
\* found" and adds no waiter; the invoice is paid: it succeeds at once with
\* the invoice's projection, complete = true, and adds no waiter; the
\* invoice is unpaid: it sends nothing and adds its command at the tail of
\* the waiters.
C12_WaitinvoiceOutcomes ==
    [][ \A params \in LabelParams :
          call'.handler = "json_waitinvoice" /\ WaitinvoiceStep(params) =>
            LET cmd == ThisCmd("waitinvoice", params)
                at == Labelled(params.label)
            IN  /\ invlist' = invlist
                /\ at = {} =>
                      /\ replies' = <<[cmd |-> cmd, success |-> FALSE,
                                       result |-> "Label not found"]>>
                      /\ invoice_waiters' = invoice_waiters
                /\ \A i \in at :
                      /\ invlist[i].state = PAID =>
                            /\ replies' = <<[cmd |-> cmd, success |-> TRUE,
                                             result |->
                                                 Projection(invlist[i])]>>
                            /\ replies'[1].result.complete
                            /\ invoice_waiters' = invoice_waiters
                      /\ invlist[i].state = UNPAID =>
                            /\ replies' = <<>>
                            /\ invoice_waiters'
                                   = Append(invoice_waiters, cmd)
      ]_vars

\* A waitinvoice for an unpaid invoice has just been queued behind a
\* waitanyinvoice.
C12_Witness ==
    /\ call.handler = "json_waitinvoice"
    /\ replies = <<>>
    /\ Len(invoice_waiters) = 2
    /\ invoice_waiters[1].method = "waitanyinvoice"
    /\ invoice_waiters[2].method = "waitinvoice"
    /\ \E i \in Labelled(invoice_waiters[2].params.label) :
           invlist[i].state = UNPAID

\* This step is json_waitanyinvoice called with these parameters.
WaitanyStep(params) ==
    /\ Issued
    /\ Becomes("json_waitanyinvoice",
               json_waitanyinvoice(ThisCmd("waitanyinvoice", params), params))

\* The step answers cmd at once with the projection of a paid invoice.
AnsweredWithPaid(cmd) ==
    /\ Len(replies') = 1
    /\ replies'[1].cmd = cmd
    /\ replies'[1].success
    /\ replies'[1].result.complete
    /\ \E i \in Positions :
          /\ invlist[i].state = PAID
          /\ replies'[1].result = Projection(invlist[i])
    /\ invoice_waiters' = invoice_waiters

\* The step sends nothing and adds cmd as one more waiter.
Suspended(cmd) ==
    /\ replies' = <<>>
    /\ Len(invoice_waiters') = Len(invoice_waiters) + 1
    /\ invoice_waiters' = Append(invoice_waiters, cmd)

\* C13 as claimed: a waitanyinvoice, with no label, a label of the list or
\* a label not in the list, either answers at once with the projection of a
\* paid invoice or adds one waiter; it never fails.
C13_WaitanyNeverFails ==
    [][ \A params \in OptLabelParams :
          call'.handler = "json_waitanyinvoice" /\ WaitanyStep(params) =>
            LET cmd == ThisCmd("waitanyinvoice", params)
            IN  AnsweredWithPaid(cmd) \/ Suspended(cmd)
      ]_vars

\* C13 as amended: a waitanyinvoice with a label that no invoice has fails
\* with "Label not found" and adds no waiter; in every other case it either
\* answers at once with the projection of a paid invoice or adds one waiter.
C13_WaitanyOutcomes ==
    [][ \A params \in OptLabelParams :
          call'.handler = "json_waitanyinvoice" /\ WaitanyStep(params) =>
            LET cmd == ThisCmd("waitanyinvoice", params)
            IN  IF "label" \in DOMAIN params /\ Labelled(params.label) = {}
                THEN /\ replies' = <<[cmd |-> cmd, success |-> FALSE,
                                      result |-> "Label not found"]>>
                     /\ invoice_waiters' = invoice_waiters
                ELSE AnsweredWithPaid(cmd) \/ Suspended(cmd)
      ]_vars

\* A waitanyinvoice with an unknown label has just failed although a paid
\* invoice is in the list.
C13_Witness ==
    /\ LastFailed("json_waitanyinvoice", "Label not found")
    /\ \E i \in Positions : invlist[i].state = PAID

\* C14: the commands told by one resolve_invoice are told in the order in
\* which they registered: of two waiters, the one whose command was issued
\* first gets its reply first.
C14_ToldInRegistrationOrder ==
    [][ call'.handler = "resolve_invoice" =>
          \A a, b \in 1..Len(invoice_waiters) :
              invoice_waiters[a].id < invoice_waiters[b].id =>
                  \E n, m \in 1..Len(replies') :
                      /\ n < m
                      /\ replies'[n].cmd = invoice_waiters[a]
                      /\ replies'[m].cmd = invoice_waiters[b]
      ]_vars

\* A resolve has just told two waitinvoice commands.
C14_Witness ==
    /\ call.handler = "resolve_invoice"
    /\ Len(replies) = 2
    /\ replies[1].cmd.method = "waitinvoice"
    /\ replies[2].cmd.method = "waitinvoice"
    /\ replies[1].cmd.id < replies[2].cmd.id

\* What json_invoice does with the next command and these parameters.
InvoiceOutcome(params, rnd, saveok) ==
    json_invoice(ThisCmd("invoice", params), params, rnd, saveok)

\* The amount of the request is missing, not a number or zero.
NotPositive(params) ==
    \/ "amount" \notin DOMAIN params
    \/ params.amount = <<>>
    \/ \E n \in 1..Len(params.amount) : ~IsDigit(params.amount[n])
    \/ \A n \in 1..Len(params.amount) : params.amount[n] = "0"

\* The label of the request is missing or too long.
TooLong(params) ==
    \/ "label" \notin DOMAIN params
    \/ Len(params.label) > INVOICE_MAX_LABEL_LEN

\* The outcome fails cmd and inserts nothing.
Rejected(out, cmd) ==
    /\ Len(out.replies) = 1
    /\ out.replies[1].cmd = cmd
    /\ ~out.replies[1].success
    /\ out.invlist = invlist
    /\ out.db = db

\* C15 as claimed: wherever a create can run, one whose amount is not
\* strictly positive, whose label is empty or whose label is too long is
\* rejected and inserts nothing; an invoice that a create inserts has a
\* positive amount and a non-empty label of at most the maximum length.
C15_CreateValidates ==
    CanIssue =>
      \A params \in InvoiceParams, rnd \in RandomBytes, saveok \in BOOLEAN :
        LET cmd == ThisCmd("invoice", params)
            out == InvoiceOutcome(params, rnd, saveok)
        IN  /\ (\/ NotPositive(params)
                \/ TooLong(params)
                \/ params.label = <<>>) => Rejected(out, cmd)
            /\ out.invlist # invlist =>
                  /\ Tail(out.invlist) = invlist
                  /\ out.invlist[1].msatoshi > 0
                  /\ out.invlist[1].label # <<>>
                  /\ Len(out.invlist[1].label) <= INVOICE_MAX_LABEL_LEN

\* C15 as amended: wherever a create can run, one whose amount is not
\* strictly positive or whose label is too long is rejected and inserts
\* nothing; an invoice that a create inserts has a positive amount and a
\* label of at most the maximum length, which may be empty.
C15_CreateValidatesAmountAndLength ==
    CanIssue =>
      \A params \in InvoiceParams, rnd \in RandomBytes, saveok \in BOOLEAN :
        LET cmd == ThisCmd("invoice", params)
            out == InvoiceOutcome(params, rnd, saveok)
        IN  /\ (NotPositive(params) \/ TooLong(params)) => Rejected(out, cmd)
            /\ out.invlist # invlist =>
                  /\ Tail(out.invlist) = invlist
                  /\ out.invlist[1].msatoshi > 0
                  /\ Len(out.invlist[1].label) <= INVOICE_MAX_LABEL_LEN

\* A create has just inserted an invoice with the empty label.
C15_Witness ==
    /\ call.handler = "json_invoice"
    /\ Len(replies) = 1
    /\ replies[1].success
    /\ Len(invlist) > 0
    /\ invlist[1].label = <<>>
    /\ invlist[1].msatoshi = 25
    /\ invlist[1].state = UNPAID

\* This step is json_listinvoice called with these parameters.
ListinvoiceStep(params) ==
    /\ Issued
    /\ Becomes("json_listinvoice",
               json_listinvoice(ThisCmd("listinvoice", params), params))

\* The places of a projection in a listinvoice result.
PlacesOf(result, inv) ==
    {n \in 1..Len(result) : result[n] = Projection(inv)}

ResolveStep(k, saveok) ==
    /\ Becomes("resolve_invoice", resolve_invoice(k, saveok))
    /\ UNCHANGED ncmds

\* C17: a resolve_invoice sets the state, then tells every waiter, then
\* saves: the state is written before the first tell_waiter and every
\* tell_waiter comes before wallet_invoice_save, so every reply says
\* complete; when the save fails the invoice is PAID in the list all the
\* same, and the list, the waiters and the replies are what they are when
\* it succeeds.
C17_StateThenTellThenSave ==
    [][ call'.handler = "resolve_invoice" =>
          /\ Precedes(call'.steps, "state", "tell_waiter")
          /\ Precedes(call'.steps, "state", "wallet_invoice_save")
          /\ \A j \in 1..Len(call'.steps) :
                call'.steps[j] = "wallet_invoice_save" =>
                    /\ j = Len(call'.steps)
                    /\ Cardinality({i \in 1..(j - 1) :
                           call'.steps[i] = "tell_waiter"})
                         = Len(invoice_waiters)
          /\ call'.steps[Len(call'.steps)] = "wallet_invoice_save"
          /\ \A k \in Positions, saveok \in BOOLEAN :
                ResolveStep(k, saveok) =>
                    /\ invlist'[k].state = PAID
                    /\ invoice_waiters' = <<>>
                    /\ Len(replies') = Len(invoice_waiters)
                    /\ \A n \in 1..Len(replies') :
                          /\ replies'[n].success
                          /\ replies'[n].result.complete
                    /\ resolve_invoice(k, ~saveok).invlist = invlist'
                    /\ resolve_invoice(k, ~saveok).invoice_waiters
                           = invoice_waiters'
                    /\ resolve_invoice(k, ~saveok).replies = replies'
      ]_vars

\* A resolve has just told a waiter although its save failed: the invoice
\* is PAID in the list and UNPAID in the wallet.
C17_Witness ==
    /\ call.handler = "resolve_invoice"
    /\ Len(replies) >= 1
    /\ \E i \in Positions :
          /\ invlist[i].state = PAID
          /\ replies[1].result = Projection(invlist[i])
          /\ \E rec \in db : rec.id = invlist[i].id /\ rec.state = UNPAID

\* C18: a resolve_invoice on an invoice that is PAID already leaves the list
\* as it is, and still takes every waiter off the list and tells it the
\* projection of that invoice.
C18_ResolveAgainTellsAgain ==
    [][ call'.handler = "resolve_invoice" =>
          \A k \in Positions, saveok \in BOOLEAN :
              ResolveStep(k, saveok) /\ invlist[k].state = PAID =>
                  /\ invlist' = invlist
                  /\ invoice_waiters' = <<>>
                  /\ Len(replies') = Len(invoice_waiters)
                  /\ \A n \in 1..Len(invoice_waiters) :
                        replies'[n] = [cmd |-> invoice_waiters[n],
                                       success |-> TRUE,
                                       result |-> Projection(invlist[k])]
      ]_vars

\* A resolve of the invoice that was loaded PAID has just told a command
\* that waited for another label.
C18_Witness ==
    /\ call.handler = "resolve_invoice"
    /\ Len(replies) = 1
    /\ replies[1].cmd.method = "waitinvoice"
    /\ replies[1].cmd.params.label = <<"a">>
    /\ replies[1].result.label = <<"b">>
    /\ \E i \in Positions :
          invlist[i] \in StoredInvoices /\ invlist[i].label = <<"b">>
                                        /\ invlist[i].state = PAID

\* The positions of the paid invoices.
PaidPositions == {i \in Positions : invlist[i].state = PAID}

\* C19: a waitanyinvoice without a label answers at once exactly when the
\* list has a PAID invoice, with the first PAID invoice from the head, and
\* otherwise sends nothing and adds itself at the tail of the waiters; with
\* the label of an invoice of the list, what it answers at once is a PAID
\* invoice other than the one with that label.
C19_WaitanyFirstPaidAfterCursor ==
    [][ \A params \in OptLabelParams :
          call'.handler = "json_waitanyinvoice" /\ WaitanyStep(params) =>
            LET cmd == ThisCmd("waitanyinvoice", params)
            IN  /\ "label" \notin DOMAIN params /\ PaidPositions # {} =>
                      /\ Len(replies') = 1
                      /\ replies'[1].cmd = cmd
                      /\ replies'[1].success
                      /\ \E i \in PaidPositions :
                            /\ \A j \in PaidPositions : i <= j
                            /\ replies'[1].result = Projection(invlist[i])
                      /\ invoice_waiters' = invoice_waiters
                /\ "label" \notin DOMAIN params /\ PaidPositions = {} =>
                      Suspended(cmd)
                /\ ("label" \in DOMAIN params
                        /\ Labelled(params.label) # {}
                        /\ replies' # <<>>) =>
                      /\ replies'[1].success
                      /\ replies'[1].result.complete
                      /\ replies'[1].result.label # params.label
      ]_vars

\* The first sequence is the beginning of the second.
IsPrefix(a, b) == Len(a) <= Len(b) /\ SubSeq(b, 1, Len(a)) = a

\* C20: only the wait handlers and resolve_invoice change the waiters: a
\* wait handler leaves them or adds its command at the tail, resolve_invoice
\* only takes commands off, and every other step, a json_delinvoice that
\* succeeds included, leaves them as they are and answers none of them.
C20_OnlyWaitsAndResolveTouchWaiters ==
    [][ /\ call'.handler \in {"json_waitinvoice", "json_waitanyinvoice"} =>
              \/ invoice_waiters' = invoice_waiters
              \/ /\ Len(invoice_waiters') = Len(invoice_waiters) + 1
                 /\ IsPrefix(invoice_waiters, invoice_waiters')
                 /\ invoice_waiters'[Len(invoice_waiters')].id = ncmds'
        /\ call'.handler = "resolve_invoice" =>
              /\ Len(invoice_waiters') <= Len(invoice_waiters)
              /\ \A n \in 1..Len(invoice_waiters') :
                    \E m \in 1..Len(invoice_waiters) :
                        invoice_waiters'[n] = invoice_waiters[m]
        /\ call'.handler \notin {"json_waitinvoice", "json_waitanyinvoice",
                                 "resolve_invoice"} =>
              /\ invoice_waiters' = invoice_waiters
              /\ \A n \in 1..Len(replies'), m \in 1..Len(invoice_waiters) :
                    replies'[n].cmd # invoice_waiters[m]
      ]_vars

\* A json_delinvoice has just removed the invoice "a" while a waitinvoice
\* command for "a" is waiting: the command is still in the waiters.
C20_Witness ==
    /\ call.handler = "json_delinvoice"
    /\ Len(replies) = 1
    /\ replies[1].success
    /\ replies[1].result.label = <<"a">>
    /\ Labelled(<<"a">>) = {}
    /\ Len(invoice_waiters) = 1
    /\ invoice_waiters[1].method = "waitinvoice"
    /\ invoice_waiters[1].params.label = <<"a">>

====
